---------------------------- MODULE Spec2Model ----------------------------
(***************************************************************************)
(* State-machine model of MyEasyOCR:                                       *)
(*   - LLMCorrector.correct_text   (src/llm_corrector.py)                  *)
(*   - OCREngine.extract_text      (src/ocr_engine.py)                     *)
(*   - process_single_image / save_results / process_directory             *)
(*                                  (src/main.py)                          *)
(*   - OCRWorker.run and the OCRGuiApp handlers (src/gui_app.py)           *)
(*                                                                         *)
(* Python strings are sequences of one-character strings, dictionaries are *)
(* records whose DOMAIN is the set of keys, None is the record None.       *)
(* Wall-clock timestamps (datetime.now()) are not part of the modelled     *)
(* records.                                                                *)
(***************************************************************************)
EXTENDS Integers, Sequences, FiniteSets, TLC

(***************************************************************************)
(* Bounds of the model.                                                    *)
(***************************************************************************)
MaxTextLen == 2
MaxRetriesArg == 3
NumFiles == 2
MaxTriples == 2

(***************************************************************************)
(* Program constants.                                                      *)
(***************************************************************************)
HTTP_OK == 200
DEFAULT_MAX_RETRIES == 3
SLEEP_SECONDS == 1

None == [none |-> TRUE]

(***************************************************************************)
(* Strings.                                                                *)
(***************************************************************************)
Chars == {"a", " "}

IsSpace(c) == c \in {" ", "\n", "\t"}

Texts == UNION {[1..k -> Chars] : k \in 0..MaxTextLen}

RECURSIVE lstrip(_)
lstrip(s) ==
    IF s = <<>> THEN <<>>
    ELSE IF IsSpace(Head(s)) THEN lstrip(Tail(s)) ELSE s

RECURSIVE rstrip(_)
rstrip(s) ==
    IF s = <<>> THEN <<>>
    ELSE IF IsSpace(s[Len(s)]) THEN rstrip(SubSeq(s, 1, Len(s) - 1)) ELSE s

\* str.strip()
strip(s) == rstrip(lstrip(s))

\* dict.get(key, default)
Get(d, key, default) == IF key \in DOMAIN d THEN d[key] ELSE default

(***************************************************************************)
(* The correction server as seen by requests.post: what one POST can end   *)
(* in.  A reply carries a status code and a body; the body has its raw     *)
(* text and what response.json() makes of it (a dictionary, or Invalid     *)
(* when parsing raises).                                                   *)
(***************************************************************************)
Invalid == [invalid |-> TRUE]

Bodies ==
    { [text |-> "{response: ' b '}", json |-> [response |-> <<" ", "b", " ">>]],
      [text |-> "{response: ''}",    json |-> [response |-> <<>>]],
      [text |-> "{done: true}",      json |-> [done |-> TRUE]],
      [text |-> "busy",              json |-> Invalid],
      [text |-> "overloaded",        json |-> Invalid] }

BodyOf(t) == CHOOSE b \in Bodies : b.text = t

Replies ==
    { [kind |-> "response", status |-> HTTP_OK, body |-> BodyOf("{response: ' b '}")],
      [kind |-> "response", status |-> HTTP_OK, body |-> BodyOf("{response: ''}")],
      [kind |-> "response", status |-> HTTP_OK, body |-> BodyOf("{done: true}")],
      [kind |-> "response", status |-> HTTP_OK, body |-> BodyOf("busy")],
      [kind |-> "response", status |-> 500,     body |-> BodyOf("busy")],
      [kind |-> "response", status |-> 503,     body |-> BodyOf("overloaded")],
      [kind |-> "Timeout"],
      [kind |-> "ConnectionError"],
      [kind |-> "Exception", msg |-> "boom"] }

NoReply == [kind |-> "none"]

IsOk(r) == r.kind = "response" /\ r.status = HTTP_OK
IsHttpError(r) == r.kind = "response" /\ r.status # HTTP_OK

\* the servers of the model: one that may reply anything, one for each single
\* reply it always gives, one that answers every request with some non-200
Servers ==
    {Replies} \cup {{r} : r \in Replies} \cup {{r \in Replies : IsHttpError(r)}}

(***************************************************************************)
(* Prompt templates: a template is known by the replacement fields it      *)
(* holds; str.format(text=...) raises KeyError on any field but {text}.    *)
(***************************************************************************)
DEFAULT_PROMPT == [name |-> "default", fields |-> {"text"}]
CORRECTION_PROMPT_TEMPLATE == [name |-> "config", fields |-> {"text"}]
Templates ==
    { None,
      CORRECTION_PROMPT_TEMPLATE,
      [name |-> "no placeholder", fields |-> {}],
      [name |-> "foreign placeholder", fields |-> {"text", "lang"}] }

FormatRaises(template) == ~(template.fields \subseteq {"text"})

(***************************************************************************)
(* Error messages of correct_text.                                         *)
(***************************************************************************)
ERR_EMPTY == [msg |-> "empty text"]
ERR_TIMEOUT == [msg |-> "request timeout"]
ERR_UNREACHABLE == [msg |-> "server unreachable"]
ERR_MAX_RETRIES == [msg |-> "max retries exceeded"]
HttpError(status, body) == [msg |-> "HTTP", status |-> status, text |-> body.text]
ExcError(m) == [msg |-> "exception", str |-> m]


(***************************************************************************)
(* State.                                                                  *)
(*   LLMCorrector.correct_text, one call frame:                            *)
(*     cpc             position: "idle", "loop" (head of the for loop),    *)
(*                     "sleep" (line 178), "returned", "raised"            *)
(*     text, prompt_template, max_retries   the arguments                  *)
(*     attempt         the loop variable                                   *)
(*     ret             the returned dictionary (None before the return)    *)
(*     posts           requests.post calls made by this call               *)
(*     slept           seconds spent in time.sleep by this call            *)
(*     trace           the POSTs and sleeps of this call, in order         *)
(*     last_reply      what the latest POST ended in                       *)
(*   The environment:                                                      *)
(*     server          the correction server: the set of replies a POST    *)
(*                     to it can end in                                    *)
(*     program         what is running: "lib" (correct_text called on its  *)
(*                     own), "batch" (main.py) or "gui" (gui_app.py)       *)
(***************************************************************************)
VARIABLES cpc, text, prompt_template, max_retries, attempt, ret,
          posts, slept, trace, last_reply, server, program

cvars == <<cpc, text, prompt_template, max_retries, attempt, ret,
           posts, slept, trace, last_reply, server, program>>

OLLAMA_MODEL == "mistral"

(***************************************************************************)
(* The dictionaries correct_text returns.                                  *)
(***************************************************************************)
\* lines 85-90
EmptyTextResult(t) ==
    [original_text |-> t, corrected_text |-> <<>>, success |-> FALSE,
     error |-> ERR_EMPTY]

\* lines 128-133
SuccessResult(t, corrected) ==
    [original_text |-> t, corrected_text |-> corrected, success |-> TRUE,
     model |-> OLLAMA_MODEL]

\* lines 139-144, 149-154, 161-166, 171-176, 180-185
FailureResult(t, err) ==
    [original_text |-> t, corrected_text |-> t, success |-> FALSE,
     error |-> err]

\* mutant of IsBlank: only the empty string counts as blank
IsBlank_EmptyOnly(t) == t = <<>>

\* line 84: not text or not text.strip()
IsBlank(t) == t = <<>> \/ strip(t) = <<>>

\* mutant of IsLastAttempt: off by one
IsLastAttempt_OffByOne(a, n) == a = n

\* lines 138, 148, 170: attempt == max_retries - 1
IsLastAttempt(a, n) == a = n - 1

\* mutant of ParseCorrected: the reply is not trimmed
ParseCorrected_NoStrip(body) == Get(body.json, "response", <<>>)

\* line 124: result.get('response', '').strip()
ParseCorrected(body) == strip(Get(body.json, "response", <<>>))

(***************************************************************************)
(* One pass through the body of the for loop (lines 108-176) for the reply *)
(* r of this attempt's POST: the dictionary returned from inside the loop, *)
(* or Retry when control falls through to the sleep of line 178.           *)
(***************************************************************************)
Retry == [retry |-> TRUE]

\* mutant of OnException: the handler never returns, also on the last attempt
OnException_AlwaysRetry(t, m, a, n) == Retry

\* lines 168-176 (also reached when response.json() raises at line 123)
OnException(t, m, a, n) ==
    IF IsLastAttempt(a, n) THEN FailureResult(t, ExcError(m)) ELSE Retry

\* mutant of OnOk: a body that does not parse ends the call on any attempt
OnOk_ParseErrorFatal(t, body, a, n) ==
    IF body.json = Invalid
    THEN FailureResult(t, ExcError("json decode error"))
    ELSE SuccessResult(t, ParseCorrected(body))

\* lines 122-133
OnOk(t, body, a, n) ==
    IF body.json = Invalid
    THEN OnException(t, "json decode error", a, n)
    ELSE SuccessResult(t, ParseCorrected(body))

\* mutant of OnHttpError: the last attempt does not return either
OnHttpError_NoLastReturn(t, r, a, n) == Retry

\* lines 134-144
OnHttpError(t, r, a, n) ==
    IF IsLastAttempt(a, n) THEN FailureResult(t, HttpError(r.status, r.body))
    ELSE Retry

\* mutant of OnTimeout: a timeout ends the call on any attempt
OnTimeout_Fatal(t, a, n) == FailureResult(t, ERR_TIMEOUT)

\* lines 146-154
OnTimeout(t, a, n) ==
    IF IsLastAttempt(a, n) THEN FailureResult(t, ERR_TIMEOUT) ELSE Retry

\* mutant of OnConnectionError: a refused connection is retried
OnConnectionError_Retry(t, a, n) ==
    IF IsLastAttempt(a, n) THEN FailureResult(t, ERR_UNREACHABLE) ELSE Retry

\* lines 156-166
OnConnectionError(t, a, n) == FailureResult(t, ERR_UNREACHABLE)

AttemptOutcome(t, r, a, n) ==
    CASE IsOk(r) -> OnOk(t, r.body, a, n)
      [] IsHttpError(r) -> OnHttpError(t, r, a, n)
      [] r.kind = "Timeout" -> OnTimeout(t, a, n)
      [] r.kind = "ConnectionError" -> OnConnectionError(t, a, n)
      [] r.kind = "Exception" -> OnException(t, r.msg, a, n)

(***************************************************************************)
(* correct_text, lines 84-105: entry of a call with arguments (t, tmpl, n).*)
(* Blank text returns at once; the default template replaces None; the     *)
(* prompt is formatted (which may raise); the loop starts at attempt 0.    *)
(***************************************************************************)
EnterCorrectText(t, tmpl, n) ==
    /\ text' = t
    /\ prompt_template' = tmpl
    /\ max_retries' = n
    /\ attempt' = 0
    /\ posts' = 0
    /\ slept' = 0
    /\ trace' = <<>>
    /\ last_reply' = NoReply
    /\ UNCHANGED <<server, program>>
    /\ IF IsBlank(t)
       THEN /\ cpc' = "returned"
            /\ ret' = EmptyTextResult(t)
       ELSE IF FormatRaises(IF tmpl = None THEN DEFAULT_PROMPT ELSE tmpl)
       THEN /\ cpc' = "raised"
            /\ ret' = None
       ELSE /\ cpc' = "loop"
            /\ ret' = None

\* lines 108-176: the body of the loop, up to its return or to line 178
TryOnce ==
    \E r \in server :
       /\ last_reply' = r
       /\ posts' = posts + 1
       /\ trace' = Append(trace, "post")
       /\ LET out == AttemptOutcome(text, r, attempt, max_retries)
          IN IF out = Retry
             THEN /\ cpc' = "sleep"
                  /\ ret' = ret
             ELSE /\ cpc' = "returned"
                  /\ ret' = out

\* lines 180-185: the loop is exhausted
Exhausted ==
    /\ cpc' = "returned"
    /\ ret' = FailureResult(text, ERR_MAX_RETRIES)
    /\ UNCHANGED <<posts, trace, last_reply>>

\* mutant of Attempt: the loop runs one time more
Attempt_OneMore ==
    /\ cpc = "loop"
    /\ IF attempt <= max_retries THEN TryOnce ELSE Exhausted
    /\ UNCHANGED <<text, prompt_template, max_retries, attempt, slept,
                   server, program>>

\* line 107: for attempt in range(max_retries)
Attempt ==
    /\ cpc = "loop"
    /\ IF attempt < max_retries THEN TryOnce ELSE Exhausted
    /\ UNCHANGED <<text, prompt_template, max_retries, attempt, slept,
                   server, program>>

\* line 178, then the next value of the loop variable
Sleep ==
    /\ cpc = "sleep"
    /\ slept' = slept + SLEEP_SECONDS
    /\ trace' = Append(trace, "sleep")
    /\ attempt' = attempt + 1
    /\ cpc' = "loop"
    /\ UNCHANGED <<text, prompt_template, max_retries, ret, posts, last_reply,
                   server, program>>

CorrectorInit ==
    /\ cpc = "idle"
    /\ text = <<>>
    /\ prompt_template = None
    /\ max_retries = DEFAULT_MAX_RETRIES
    /\ attempt = 0
    /\ ret = None
    /\ posts = 0
    /\ slept = 0
    /\ trace = <<>>
    /\ last_reply = NoReply

(***************************************************************************)
(* correct_text called on its own, with any text, template and max_retries.*)
(***************************************************************************)
RetryArgs == (-1)..MaxRetriesArg

CallCorrectText ==
    /\ program = "lib"
    /\ cpc \in {"idle", "returned", "raised"}
    /\ \E t \in Texts, tmpl \in Templates, n \in RetryArgs :
          EnterCorrectText(t, tmpl, n)

(***************************************************************************)
(* OCREngine.extract_text (src/ocr_engine.py).                             *)
(* The recognizer returns a list of (bbox, text, confidence) triples;      *)
(* confidences are in percent and the average is an exact fraction.        *)
(***************************************************************************)
RECURSIVE GCD(_, _)
GCD(a, b) == IF b = 0 THEN a ELSE GCD(b, a % b)

\* the fraction n/d in lowest terms
Frac(n, d) == LET g == GCD(n, d) IN [num |-> n \div g, den |-> d \div g]

Triple(y, t, c) == [bbox |-> <<10, y>>, text |-> t, confidence |-> c]

\* str.join
RECURSIVE Join(_, _)
Join(sep, parts) ==
    IF parts = <<>> THEN <<>>
    ELSE IF Len(parts) = 1 THEN parts[1]
    ELSE parts[1] \o sep \o Join(sep, Tail(parts))

RECURSIVE Sum(_)
Sum(ns) == IF ns = <<>> THEN 0 ELSE Head(ns) + Sum(Tail(ns))

Raised(msg) == [raised |-> TRUE, exc |-> msg]
Returned(v) == [raised |-> FALSE, value |-> v]

\* lines 83-121: the result dictionary for what reader.readtext returned
BuildOcrResult(results) ==
    IF results = <<>>
    THEN [full_text |-> <<>>, confidence_avg |-> Frac(0, 1), num_words |-> 0,
          details |-> <<>>]
    ELSE LET texts == [k \in 1..Len(results) |-> results[k].text]
             confidences == [k \in 1..Len(results) |-> results[k].confidence]
         IN [full_text |-> Join(<<" ">>, texts),
             confidence_avg |-> Frac(Sum(confidences), Len(confidences)),
             num_words |-> Len(texts),
             details |-> results]

\* lines 64-125.  An image is [exists, decodable, raises, results]: whether
\* the path exists, whether cv2.imdecode yields an image, whether
\* reader.readtext raises on it, and the triples it returns otherwise.
extract_text(image) ==
    IF ~image.exists THEN Raised("FileNotFoundError")
    ELSE IF ~image.decodable THEN Raised("ValueError")
    ELSE IF image.raises THEN Raised("recognizer error")
    ELSE Returned(BuildOcrResult(image.results))

Readable(results) ==
    [exists |-> TRUE, decodable |-> TRUE, raises |-> FALSE, results |-> results]

\* the images of the batch and GUI runs
Images ==
    { [exists |-> FALSE, decodable |-> FALSE, raises |-> FALSE, results |-> <<>>],
      [exists |-> TRUE, decodable |-> FALSE, raises |-> FALSE, results |-> <<>>],
      [exists |-> TRUE, decodable |-> TRUE, raises |-> TRUE, results |-> <<>>],
      Readable(<<>>),
      Readable(<<Triple(10, <<>>, 40), Triple(10, <<>>, 90)>>),
      Readable(<<Triple(10, <<"a">>, 90)>>) }

(***************************************************************************)
(* One call of extract_text, step by step (lines 64-125).                  *)
(*   ocr_pc             "idle", "called" (line 66), "decode" (lines 73-78),*)
(*                      "readtext" (line 81), "build" (lines 83-121),      *)
(*                      "returned", "raised"                               *)
(*   ocr_image          the image behind the argument image_path           *)
(*   ocr_results        the local variable results                         *)
(*   ocr_ret            what the call returned or raised                   *)
(*   readtext_calls     calls of reader.readtext made by this call         *)
(*   readtext_exc       what reader.readtext raised, if it did             *)
(*   confidence_spinbox the confidence threshold of the settings panel, in *)
(*                      percent (gui_app.py lines 229-234); it is read by  *)
(*                      no code and is not an argument of extract_text     *)
(***************************************************************************)
VARIABLES ocr_pc, ocr_image, ocr_results, ocr_ret, readtext_calls,
          readtext_exc, confidence_spinbox

ovars == <<ocr_pc, ocr_image, ocr_results, ocr_ret, readtext_calls,
           readtext_exc, confidence_spinbox>>

CONFIDENCE_DEFAULT == 50

\* QSpinBox range 0..100 (line 231)
Thresholds == {0, CONFIDENCE_DEFAULT, 100}

RecognizerErrors == {"RuntimeError", "MemoryError"}

TripleChoices ==
    { Triple(y, t, c) : y \in {10, 15, 40}, t \in {<<"a">>, <<"b">>},
                        c \in {40, 90} }

RECURSIVE SeqsUpTo(_, _)
SeqsUpTo(S, n) ==
    IF n = 0 THEN {<<>>}
    ELSE LET shorter == SeqsUpTo(S, n - 1)
         IN shorter \cup { Append(q, x) : q \in shorter, x \in S }

HelloWorld ==
    <<Triple(10, <<"H", "e", "l", "l", "o">>, 90),
      Triple(40, <<"W", "o", "r", "l", "d">>, 80)>>

\* the images extract_text is called on
OcrImages ==
    { [exists |-> FALSE, decodable |-> FALSE, raises |-> FALSE, results |-> <<>>],
      [exists |-> TRUE, decodable |-> FALSE, raises |-> FALSE, results |-> <<>>],
      [exists |-> TRUE, decodable |-> TRUE, raises |-> TRUE, results |-> <<>>],
      Readable(HelloWorld) }
    \cup { Readable(q) : q \in SeqsUpTo(TripleChoices, MaxTriples) }

\* mutant of Propagate: the handler raises an error of its own
Propagate_Wrapped(exc) == "OCRError"

\* lines 123-125: log, then re-raise
Propagate(exc) == exc

OcrInit ==
    /\ ocr_pc = "idle"
    /\ ocr_image = None
    /\ ocr_results = <<>>
    /\ ocr_ret = None
    /\ readtext_calls = 0
    /\ readtext_exc = "None"
    /\ confidence_spinbox = CONFIDENCE_DEFAULT

\* the user sets the threshold in the settings panel
set_confidence ==
    /\ program = "ocr"
    /\ \E v \in Thresholds : confidence_spinbox' = v
    /\ UNCHANGED <<ocr_pc, ocr_image, ocr_results, ocr_ret, readtext_calls,
                   readtext_exc>>

\* a call extract_text(image_path)
CallExtractText ==
    /\ program = "ocr"
    /\ ocr_pc \in {"idle", "returned", "raised"}
    /\ \E image \in OcrImages : ocr_image' = image
    /\ ocr_pc' = "called"
    /\ ocr_results' = <<>>
    /\ ocr_ret' = None
    /\ readtext_calls' = 0
    /\ readtext_exc' = "None"
    /\ UNCHANGED confidence_spinbox

\* lines 66-67
CheckExists ==
    /\ ocr_pc = "called"
    /\ IF ~ocr_image.exists
       THEN /\ ocr_ret' = Raised(Propagate("FileNotFoundError"))
            /\ ocr_pc' = "raised"
       ELSE /\ ocr_pc' = "decode"
            /\ UNCHANGED ocr_ret
    /\ UNCHANGED <<ocr_image, ocr_results, readtext_calls, readtext_exc,
                   confidence_spinbox>>

\* lines 73-78
Decode ==
    /\ ocr_pc = "decode"
    /\ IF ~ocr_image.decodable
       THEN /\ ocr_ret' = Raised(Propagate("ValueError"))
            /\ ocr_pc' = "raised"
       ELSE /\ ocr_pc' = "readtext"
            /\ UNCHANGED ocr_ret
    /\ UNCHANGED <<ocr_image, ocr_results, readtext_calls, readtext_exc,
                   confidence_spinbox>>

\* line 81
ReadText ==
    /\ ocr_pc = "readtext"
    /\ readtext_calls' = readtext_calls + 1
    /\ IF ocr_image.raises
       THEN \E e \in RecognizerErrors :
               /\ readtext_exc' = e
               /\ ocr_ret' = Raised(Propagate(e))
               /\ ocr_pc' = "raised"
               /\ UNCHANGED ocr_results
       ELSE /\ ocr_results' = ocr_image.results
            /\ ocr_pc' = "build"
            /\ UNCHANGED <<ocr_ret, readtext_exc>>
    /\ UNCHANGED <<ocr_image, confidence_spinbox>>

\* lines 83-121
BuildResult ==
    /\ ocr_pc = "build"
    /\ ocr_ret' = Returned(BuildOcrResult(ocr_results))
    /\ ocr_pc' = "returned"
    /\ UNCHANGED <<ocr_image, ocr_results, readtext_calls, readtext_exc,
                   confidence_spinbox>>

(***************************************************************************)
(* Batch mode (src/main.py).                                               *)
(*   bpc          position in process_directory: "start", "recognize"      *)
(*                (process_single_image about to run on file idx),         *)
(*                "correct" (inside its call of correct_text), "save"      *)
(*                (record appended, save_results about to run), "summary", *)
(*                "done", "returned_early" (lines 148-150, 167-169)        *)
(*   image_files  the files found, in iteration order                      *)
(*   idx          the loop counter i of line 175                           *)
(*   ocr_result   what extract_text returned for file idx (None when it    *)
(*                raised)                                                  *)
(*   all_results  the list of line 174                                     *)
(*   artifacts    per-image files on disk, as <<stem, kind>>               *)
(*   summaries    the summary files written, each with its content         *)
(*   stats        the statistics logged at lines 192-194                   *)
(*   events       the steps taken so far, as <<i, step>> for loop counter  *)
(*                i: "recognize_ok" / "recognize_raised" (extract_text     *)
(*                returned / raised, line 54), "correct" (correct_text     *)
(*                called, line 62), "persist" (save_results called, line   *)
(*                182)                                                     *)
(* Writing the summary file itself is taken to succeed: the code has no    *)
(* handler for its failure.                                                *)
(***************************************************************************)
VARIABLES bpc, image_files, idx, ocr_result, all_results, artifacts,
          summaries, stats, events

bvars == <<bpc, image_files, idx, ocr_result, all_results, artifacts,
           summaries, stats, events>>

SAVE_JSON_RESULT == TRUE
SAVE_RAW_TEXT == TRUE
SAVE_CORRECTED_TEXT == TRUE

\* the frame of a finished correct_text call is dropped by its caller
PopFrame ==
    /\ cpc' = "idle"
    /\ text' = <<>>
    /\ prompt_template' = None
    /\ max_retries' = DEFAULT_MAX_RETRIES
    /\ attempt' = 0
    /\ ret' = None
    /\ posts' = 0
    /\ slept' = 0
    /\ trace' = <<>>
    /\ last_reply' = NoReply
    /\ UNCHANGED <<server, program>>

\* mutant of ErrorRecord: the failed record keeps a partial ocr section
ErrorRecord_Partial(filename, msg) ==
    [filename |-> filename, error |-> msg, ocr |-> None]

\* process_single_image, lines 90-95
ErrorRecord(filename, msg) == [filename |-> filename, error |-> msg]

\* process_single_image, lines 61-69: the corrected text kept in the record
RecordCorrectedText(raw_text, correction_result) ==
    IF correction_result.success THEN correction_result.corrected_text
    ELSE raw_text

\* mutant of BuildRecord: a failed correction fails the image
BuildRecord_FailOnCorrection(filename, ocr, correction_result) ==
    IF correction_result.success
    THEN [filename |-> filename,
          ocr |-> [raw_text |-> ocr.full_text,
                   confidence |-> ocr.confidence_avg,
                   word_count |-> ocr.num_words],
          correction |->
             [corrected_text |-> correction_result.corrected_text,
              success |-> TRUE,
              model |-> Get(correction_result, "model", "unknown"),
              error |-> Get(correction_result, "error", None)]]
    ELSE [filename |-> filename, error |-> "correction failed"]

\* process_single_image, lines 54-88
BuildRecord(filename, ocr, correction_result) ==
    [filename |-> filename,
     ocr |-> [raw_text |-> ocr.full_text,
              confidence |-> ocr.confidence_avg,
              word_count |-> ocr.num_words],
     correction |->
        [corrected_text |-> RecordCorrectedText(ocr.full_text, correction_result),
         success |-> correction_result.success,
         model |-> Get(correction_result, "model", "unknown"),
         error |-> Get(correction_result, "error", None)]]

\* mutant of HasError: the error check of save_results never fires
HasError_Never(record) == FALSE

\* save_results, line 107, and process_directory, line 193: 'error' in result
HasError(record) == "error" \in DOMAIN record

\* save_results, lines 111-130: the files written, in order
ArtifactKinds ==
    (IF SAVE_JSON_RESULT THEN <<"json">> ELSE <<>>)
    \o (IF SAVE_RAW_TEXT THEN <<"raw">> ELSE <<>>)
    \o (IF SAVE_CORRECTED_TEXT THEN <<"corrected">> ELSE <<>>)

\* mutant of Statistics: only corrected images count as successes
Statistics_CorrectedOnly(files, results) ==
    LET successful ==
           Cardinality({k \in 1..Len(results) :
                           /\ ~HasError(results[k])
                           /\ results[k].correction.success})
    IN [total |-> Len(files), successful |-> successful,
        failed |-> Len(files) - successful]

\* process_directory, lines 193-194
Statistics(files, results) ==
    LET successful == Cardinality({k \in 1..Len(results) : ~HasError(results[k])})
    IN [total |-> Len(files), successful |-> successful,
        failed |-> Len(files) - successful]

\* mutant of MoreFiles: the loop stops one file early
MoreFiles_OffByOne(i, files) == i + 1 < Len(files)

\* process_directory, line 175: the loop goes on to a next file
MoreFiles(i, files) == i < Len(files)

BatchInit ==
    /\ bpc = "start"
    /\ image_files = <<>>
    /\ idx = 0
    /\ ocr_result = None
    /\ all_results = <<>>
    /\ artifacts = {}
    /\ summaries = <<>>
    /\ stats = None
    /\ events = <<>>

\* process_directory, lines 143-174: up to the first iteration of the loop
process_directory ==
    /\ program = "batch"
    /\ bpc = "start"
    /\ \E dir_exists \in BOOLEAN, n \in 0..NumFiles :
          IF ~dir_exists \/ n = 0
          THEN /\ bpc' = "returned_early"
               /\ UNCHANGED <<image_files, idx>>
          ELSE /\ image_files' = [k \in 1..n |-> k]
               /\ idx' = 1
               /\ bpc' = "recognize"
    /\ UNCHANGED <<ocr_result, all_results, artifacts, summaries, stats,
                   events>>
    /\ UNCHANGED cvars

\* mutant of Recognize: a failed recognition counts as an empty text, which
\* goes on to correction
Recognize_CorrectsFailed ==
    /\ bpc = "recognize"
    /\ \E image \in Images :
          LET r == extract_text(image)
              value == IF r.raised THEN BuildOcrResult(<<>>) ELSE r.value
          IN /\ ocr_result' = value
             /\ EnterCorrectText(value.full_text, CORRECTION_PROMPT_TEMPLATE,
                                 DEFAULT_MAX_RETRIES)
             /\ bpc' = "correct"
             /\ events' = events \o
                   <<<<idx, IF r.raised THEN "recognize_raised"
                                        ELSE "recognize_ok">>,
                     <<idx, "correct">>>>
             /\ UNCHANGED all_results
    /\ UNCHANGED <<image_files, idx, artifacts, summaries, stats>>

\* process_single_image, lines 49-60 (and 90-95, 178 when recognition raises)
Recognize ==
    /\ bpc = "recognize"
    /\ \E image \in Images :
          LET r == extract_text(image)
          IN IF r.raised
             THEN /\ all_results' =
                        Append(all_results, ErrorRecord(image_files[idx], r.exc))
                  /\ bpc' = "save"
                  /\ ocr_result' = None
                  /\ events' = Append(events, <<idx, "recognize_raised">>)
                  /\ UNCHANGED cvars
             ELSE /\ ocr_result' = r.value
                  /\ EnterCorrectText(r.value.full_text,
                                      CORRECTION_PROMPT_TEMPLATE,
                                      DEFAULT_MAX_RETRIES)
                  /\ bpc' = "correct"
                  /\ events' = events \o <<<<idx, "recognize_ok">>,
                                           <<idx, "correct">>>>
                  /\ UNCHANGED all_results
    /\ UNCHANGED <<image_files, idx, artifacts, summaries, stats>>

\* process_single_image, lines 61-95, and the append of line 178
Assemble ==
    /\ bpc = "correct"
    /\ cpc \in {"returned", "raised"}
    /\ all_results' =
          Append(all_results,
                 IF cpc = "raised"
                 THEN ErrorRecord(image_files[idx], "KeyError")
                 ELSE BuildRecord(image_files[idx], ocr_result, ret))
    /\ PopFrame
    /\ bpc' = "save"
    /\ UNCHANGED <<image_files, idx, ocr_result, artifacts, summaries, stats,
                   events>>

\* save_results (lines 106-133) for the record just appended, then the next
\* iteration; a write that raises ends save_results with the files written
\* so far
Save ==
    /\ bpc = "save"
    /\ LET result == all_results[idx]
       IN IF HasError(result)
          THEN UNCHANGED artifacts
          ELSE \E written \in 0..Len(ArtifactKinds) :
                  artifacts' = artifacts \cup
                     {<<image_files[idx], ArtifactKinds[j]>> : j \in 1..written}
    /\ IF MoreFiles(idx, image_files)
       THEN /\ idx' = idx + 1
            /\ bpc' = "recognize"
       ELSE /\ idx' = idx
            /\ bpc' = "summary"
    /\ events' = Append(events, <<idx, "persist">>)
    /\ UNCHANGED <<image_files, ocr_result, all_results, summaries, stats>>
    /\ UNCHANGED cvars

\* process_directory, lines 185-194
Summarize ==
    /\ bpc = "summary"
    /\ summaries' = Append(summaries, all_results)
    /\ stats' = Statistics(image_files, all_results)
    /\ bpc' = "done"
    /\ UNCHANGED <<image_files, idx, ocr_result, all_results, artifacts,
                   events>>
    /\ UNCHANGED cvars

(***************************************************************************)
(* GUI (src/gui_app.py).                                                   *)
(*   ocr_engine, llm_corrector   "set", or "None" when init_engines failed *)
(*   current_image_path          a path, or "None"                         *)
(*   current_result              the record last handed over, or None      *)
(*   correction_checkbox         the 'enable correction' check box         *)
(*   ui                          the widgets the handlers set              *)
(*   worker                      the arguments of the latest OCRWorker     *)
(*   wpc                         its position in run(): "idle" (no thread),*)
(*                               "run", "ocr", "correct", "finish"         *)
(*   running                     worker threads inside run()               *)
(*   w_result                    the local variable result of run()        *)
(*   signals                     signals emitted and not yet handled by    *)
(*                               the GUI thread (queued connections)       *)
(*   emitted                     the signals of the latest run, in order   *)
(***************************************************************************)
VARIABLES ocr_engine, llm_corrector, current_image_path, current_result,
          correction_checkbox, ui, worker, wpc, running, w_result,
          signals, emitted

gvars == <<ocr_engine, llm_corrector, current_image_path, current_result,
           correction_checkbox, ui, worker, wpc, running, w_result,
           signals, emitted>>

vars == <<cvars, bvars, gvars, ovars>>

Paths == {"a.png", "b.png"}

PROGRESS_STEP == 30
PROGRESS_DONE == 100

\* QProgressBar.setValue: a value outside 0..100 is ignored
SetValue(bar, v) == IF v \in 0..PROGRESS_DONE THEN v ELSE bar

\* mutant of clear_results: it also re-enables the start button
clear_results_EnablesStart(u) ==
    [u EXCEPT !.copy_raw_button = FALSE, !.copy_corrected_button = FALSE,
              !.save_button = FALSE, !.export_button = FALSE,
              !.process_button = TRUE]

\* clear_results, lines 522-530
clear_results(u) ==
    [u EXCEPT !.copy_raw_button = FALSE, !.copy_corrected_button = FALSE,
              !.save_button = FALSE, !.export_button = FALSE]

Emit(sig, arg) == [sig |-> sig, arg |-> arg]

\* OCRWorker.run, lines 81-90
WorkerRecord(path, ocr) ==
    [filename |-> path,
     ocr |-> [raw_text |-> ocr.full_text,
              confidence |-> ocr.confidence_avg,
              word_count |-> ocr.num_words],
     correction |-> None]

\* OCRWorker.run, lines 103-108
WorkerCorrection(correction_result) ==
    [corrected_text |-> correction_result.corrected_text,
     success |-> correction_result.success,
     model |-> Get(correction_result, "model", "unknown"),
     error |-> Get(correction_result, "error", None)]

\* OCRWorker.run, lines 109-116
WorkerCorrectionFallback(raw_text, msg) ==
    [corrected_text |-> raw_text, success |-> FALSE, model |-> OLLAMA_MODEL,
     error |-> ExcError(msg)]

\* OCRGuiApp.__init__ (lines 129-153) with init_engines (lines 358-377)
GuiInit ==
    /\ \E outcome \in {"ok", "ocr failed", "llm failed"} :
          /\ ocr_engine = IF outcome = "ocr failed" THEN "None" ELSE "set"
          /\ llm_corrector = IF outcome = "ok" THEN "set" ELSE "None"
    /\ current_image_path = "None"
    /\ current_result = None
    /\ correction_checkbox = TRUE
    /\ ui = [process_button |-> TRUE, save_button |-> FALSE,
             export_button |-> FALSE, copy_raw_button |-> FALSE,
             copy_corrected_button |-> FALSE, progress_bar |-> -1,
             progress_visible |-> FALSE, status |-> "IDLE"]
    /\ worker = None
    /\ wpc = "idle"
    /\ running = 0
    /\ w_result = None
    /\ signals = <<>>
    /\ emitted = <<>>

\* lines 379-394; the dialog may be cancelled
select_image ==
    /\ program = "gui"
    /\ \E file_path \in Paths \cup {""} :
          IF file_path # ""
          THEN /\ current_image_path' = file_path
               /\ ui' = clear_results(ui)
          ELSE UNCHANGED <<current_image_path, ui>>
    /\ UNCHANGED <<ocr_engine, llm_corrector, current_result,
                   correction_checkbox, worker, wpc, running, w_result,
                   signals, emitted>>
    /\ UNCHANGED <<cvars, bvars>>

\* the user toggles the check box of lines 245-247
toggle_correction ==
    /\ program = "gui"
    /\ correction_checkbox' = ~correction_checkbox
    /\ UNCHANGED <<ocr_engine, llm_corrector, current_image_path,
                   current_result, ui, worker, wpc, running, w_result,
                   signals, emitted>>
    /\ UNCHANGED <<cvars, bvars>>

\* lines 416-448; the button can be pressed only while it is enabled
start_processing ==
    /\ program = "gui"
    /\ ui.process_button
    /\ \E path_exists \in BOOLEAN :
          IF current_image_path = "None" \/ ~path_exists
          THEN UNCHANGED <<ui, worker, wpc, running, w_result, emitted>>
          ELSE /\ ui' = [clear_results(ui) EXCEPT
                            !.process_button = FALSE,
                            !.progress_visible = TRUE,
                            !.progress_bar = SetValue(ui.progress_bar, 0),
                            !.status = "PROCESSING_OCR"]
               /\ worker' = [image_path |-> current_image_path,
                             enable_correction |-> correction_checkbox]
               /\ wpc' = "run"
               /\ running' = running + 1
               /\ w_result' = None
               /\ emitted' = <<>>
    /\ UNCHANGED <<ocr_engine, llm_corrector, current_image_path,
                   current_result, correction_checkbox, signals>>
    /\ UNCHANGED <<cvars, bvars>>

\* OCRWorker.run, line 70
WorkerBegin ==
    /\ wpc = "run"
    /\ signals' = Append(signals, Emit("progress", "OCR"))
    /\ emitted' = Append(emitted, "progress:OCR")
    /\ wpc' = "ocr"
    /\ UNCHANGED <<ocr_engine, llm_corrector, current_image_path,
                   current_result, correction_checkbox, ui, worker, running,
                   w_result>>
    /\ UNCHANGED <<cvars, bvars>>

\* mutant of WorkerRecognize: the handler of lines 121-123 only logs
WorkerRecognize_SilentFailure ==
    /\ wpc = "ocr"
    /\ \E image \in Images :
          LET r == IF ocr_engine = "None" THEN Raised("AttributeError")
                   ELSE extract_text(image)
          IN IF r.raised
             THEN /\ UNCHANGED <<signals, emitted>>
                  /\ wpc' = "idle"
                  /\ running' = running - 1
                  /\ UNCHANGED w_result
             ELSE /\ w_result' = WorkerRecord(worker.image_path, r.value)
                  /\ wpc' = "recognized"
                  /\ UNCHANGED <<signals, emitted, running>>
    /\ UNCHANGED <<ocr_engine, llm_corrector, current_image_path,
                   current_result, correction_checkbox, ui, worker>>
    /\ UNCHANGED <<cvars, bvars>>

\* OCRWorker.run, lines 74-90; when recognition raises, lines 121-123
WorkerRecognize ==
    /\ wpc = "ocr"
    /\ \E image \in Images :
          LET r == IF ocr_engine = "None" THEN Raised("AttributeError")
                   ELSE extract_text(image)
          IN IF r.raised
             THEN /\ signals' = Append(signals, Emit("error", r.exc))
                  /\ emitted' = Append(emitted, "error")
                  /\ wpc' = "idle"
                  /\ running' = running - 1
                  /\ UNCHANGED w_result
             ELSE /\ w_result' = WorkerRecord(worker.image_path, r.value)
                  /\ wpc' = "recognized"
                  /\ UNCHANGED <<signals, emitted, running>>
    /\ UNCHANGED <<ocr_engine, llm_corrector, current_image_path,
                   current_result, correction_checkbox, ui, worker>>
    /\ UNCHANGED <<cvars, bvars>>

\* OCRWorker.run, lines 93-101: the call of correct_text (lines 109-116 when
\* there is no corrector to call)
WorkerCorrect ==
    /\ wpc = "recognized"
    /\ IF worker.enable_correction
       THEN /\ signals' = Append(signals, Emit("progress", "LLM"))
            /\ emitted' = Append(emitted, "progress:LLM")
            /\ IF llm_corrector = "None"
               THEN /\ w_result' =
                          [w_result EXCEPT !.correction =
                              WorkerCorrectionFallback(w_result.ocr.raw_text,
                                                       "AttributeError")]
                    /\ wpc' = "finish"
                    /\ UNCHANGED cvars
               ELSE /\ EnterCorrectText(w_result.ocr.raw_text,
                                        CORRECTION_PROMPT_TEMPLATE,
                                        DEFAULT_MAX_RETRIES)
                    /\ wpc' = "correct"
                    /\ UNCHANGED w_result
       ELSE /\ wpc' = "finish"
            /\ UNCHANGED <<signals, emitted, w_result>>
            /\ UNCHANGED cvars
    /\ UNCHANGED <<ocr_engine, llm_corrector, current_image_path,
                   current_result, correction_checkbox, ui, worker, running>>
    /\ UNCHANGED bvars

\* OCRWorker.run, lines 103-116: correct_text has returned (or raised)
WorkerCorrected ==
    /\ wpc = "correct"
    /\ cpc \in {"returned", "raised"}
    /\ w_result' =
          [w_result EXCEPT !.correction =
              IF cpc = "raised"
              THEN WorkerCorrectionFallback(w_result.ocr.raw_text, "KeyError")
              ELSE WorkerCorrection(ret)]
    /\ PopFrame
    /\ wpc' = "finish"
    /\ UNCHANGED <<ocr_engine, llm_corrector, current_image_path,
                   current_result, correction_checkbox, ui, worker, running,
                   signals, emitted>>
    /\ UNCHANGED bvars

\* mutant of WorkerFinish: finished is emitted before the last milestone
WorkerFinish_FinishedFirst ==
    /\ wpc = "finish"
    /\ signals' = signals \o <<Emit("finished", w_result), Emit("progress", "done")>>
    /\ emitted' = emitted \o <<"finished", "progress:done">>
    /\ wpc' = "idle"
    /\ running' = running - 1
    /\ UNCHANGED <<ocr_engine, llm_corrector, current_image_path,
                   current_result, correction_checkbox, ui, worker, w_result>>
    /\ UNCHANGED <<cvars, bvars>>

\* OCRWorker.run, lines 118-119
WorkerFinish ==
    /\ wpc = "finish"
    /\ signals' = signals \o <<Emit("progress", "done"), Emit("finished", w_result)>>
    /\ emitted' = emitted \o <<"progress:done", "finished">>
    /\ wpc' = "idle"
    /\ running' = running - 1
    /\ UNCHANGED <<ocr_engine, llm_corrector, current_image_path,
                   current_result, correction_checkbox, ui, worker, w_result>>
    /\ UNCHANGED <<cvars, bvars>>

\* lines 450-453
on_progress ==
    /\ signals # <<>>
    /\ Head(signals).sig = "progress"
    /\ ui' = [ui EXCEPT !.progress_bar =
                 SetValue(ui.progress_bar, ui.progress_bar + PROGRESS_STEP)]
    /\ signals' = Tail(signals)
    /\ UNCHANGED <<ocr_engine, llm_corrector, current_image_path,
                   current_result, correction_checkbox, worker, wpc, running,
                   w_result, emitted>>
    /\ UNCHANGED <<cvars, bvars>>

\* lines 455-485
on_processing_finished ==
    /\ signals # <<>>
    /\ Head(signals).sig = "finished"
    /\ LET result == Head(signals).arg
       IN /\ current_result' = result
          /\ ui' = [ui EXCEPT
                      !.copy_corrected_button =
                          IF result.correction = None THEN FALSE
                          ELSE result.correction.success,
                      !.progress_bar = SetValue(ui.progress_bar, PROGRESS_DONE),
                      !.status = "COMPLETED",
                      !.process_button = TRUE,
                      !.save_button = TRUE,
                      !.export_button = TRUE,
                      !.copy_raw_button = TRUE]
    /\ signals' = Tail(signals)
    /\ UNCHANGED <<ocr_engine, llm_corrector, current_image_path,
                   correction_checkbox, worker, wpc, running, w_result,
                   emitted>>
    /\ UNCHANGED <<cvars, bvars>>

\* lines 487-494
on_processing_error ==
    /\ signals # <<>>
    /\ Head(signals).sig = "error"
    /\ ui' = [ui EXCEPT !.status = "ERROR", !.progress_visible = FALSE,
                        !.process_button = TRUE]
    /\ signals' = Tail(signals)
    /\ UNCHANGED <<ocr_engine, llm_corrector, current_image_path,
                   current_result, correction_checkbox, worker, wpc, running,
                   w_result, emitted>>
    /\ UNCHANGED <<cvars, bvars>>

(***************************************************************************)
(* Specifications.                                                         *)
(*   SpecCorrect  correct_text called with any arguments                   *)
(*   SpecBatch    one run of process_directory                             *)
(*   SpecGui      the GUI with its worker thread                           *)
(*   SpecOcr      extract_text called with any image                       *)
(***************************************************************************)
GuiIdle ==
    /\ GuiInit
    /\ ocr_engine = "set"
    /\ llm_corrector = "set"

InitCorrect ==
    /\ CorrectorInit /\ BatchInit /\ GuiIdle /\ OcrInit
    /\ program = "lib"
    /\ server \in Servers

NextCorrect ==
    \/ CallCorrectText /\ UNCHANGED <<bvars, gvars, ovars>>
    \/ Attempt /\ UNCHANGED <<bvars, gvars, ovars>>
    \/ Sleep /\ UNCHANGED <<bvars, gvars, ovars>>

SpecCorrect == InitCorrect /\ [][NextCorrect]_vars

\* a call that is in its loop goes on: the request ends by its reply, an
\* exception or its timeout of 120 s (line 119), the wait after one second
SpecCorrectRun ==
    /\ SpecCorrect
    /\ WF_vars(Attempt /\ UNCHANGED <<bvars, gvars, ovars>>)
    /\ WF_vars(Sleep /\ UNCHANGED <<bvars, gvars, ovars>>)

InitBatch ==
    /\ CorrectorInit /\ BatchInit /\ GuiIdle /\ OcrInit
    /\ program = "batch"
    /\ server = Replies

NextBatch ==
    \/ process_directory /\ UNCHANGED <<gvars, ovars>>
    \/ Recognize /\ UNCHANGED <<gvars, ovars>>
    \/ Attempt /\ UNCHANGED <<bvars, gvars, ovars>>
    \/ Sleep /\ UNCHANGED <<bvars, gvars, ovars>>
    \/ Assemble /\ UNCHANGED <<gvars, ovars>>
    \/ Save /\ UNCHANGED <<gvars, ovars>>
    \/ Summarize /\ UNCHANGED <<gvars, ovars>>

SpecBatch == InitBatch /\ [][NextBatch]_vars

\* the batch is one sequential run: every step it can take it takes (each
\* request is bounded by its timeout, each wait by its second)
SpecBatchRun == SpecBatch /\ WF_vars(NextBatch)

InitGui ==
    /\ CorrectorInit /\ BatchInit /\ GuiInit /\ OcrInit
    /\ program = "gui"
    /\ server = Replies

NextGui ==
    \/ select_image /\ UNCHANGED ovars
    \/ toggle_correction /\ UNCHANGED ovars
    \/ start_processing /\ UNCHANGED ovars
    \/ WorkerBegin /\ UNCHANGED ovars
    \/ WorkerRecognize /\ UNCHANGED ovars
    \/ WorkerCorrect /\ UNCHANGED ovars
    \/ Attempt /\ UNCHANGED <<bvars, gvars, ovars>>
    \/ Sleep /\ UNCHANGED <<bvars, gvars, ovars>>
    \/ WorkerCorrected /\ UNCHANGED ovars
    \/ WorkerFinish /\ UNCHANGED ovars
    \/ on_progress /\ UNCHANGED ovars
    \/ on_processing_finished /\ UNCHANGED ovars
    \/ on_processing_error /\ UNCHANGED ovars

SpecGui == InitGui /\ [][NextGui]_vars

\* the steps of the worker thread and of the handlers the event loop runs
GuiRunStep ==
    \/ /\ \/ WorkerBegin
          \/ WorkerRecognize
          \/ WorkerCorrect
          \/ WorkerCorrected
          \/ WorkerFinish
          \/ on_progress
          \/ on_processing_finished
          \/ on_processing_error
       /\ UNCHANGED ovars
    \/ (Attempt \/ Sleep) /\ UNCHANGED <<bvars, gvars, ovars>>

\* the worker thread keeps running and the event loop keeps delivering the
\* queued signals; recognition and correction return or raise
SpecGuiRun == SpecGui /\ WF_vars(GuiRunStep)

\* either front end, over the same engines
SpecApp == (InitBatch \/ InitGui) /\ [][NextBatch \/ NextGui]_vars

InitOcr ==
    /\ CorrectorInit /\ BatchInit /\ GuiIdle /\ OcrInit
    /\ program = "ocr"
    /\ server = Replies

NextOcr ==
    \/ set_confidence /\ UNCHANGED <<cvars, bvars, gvars>>
    \/ CallExtractText /\ UNCHANGED <<cvars, bvars, gvars>>
    \/ CheckExists /\ UNCHANGED <<cvars, bvars, gvars>>
    \/ Decode /\ UNCHANGED <<cvars, bvars, gvars>>
    \/ ReadText /\ UNCHANGED <<cvars, bvars, gvars>>
    \/ BuildResult /\ UNCHANGED <<cvars, bvars, gvars>>

\* extract_text called on any image, under any threshold setting
SpecOcr == InitOcr /\ [][NextOcr]_vars

Spec == SpecCorrect

(***************************************************************************)
(* Properties of LLMCorrector.correct_text, checked under SpecCorrect.     *)
(***************************************************************************)
EffectiveTemplate ==
    IF prompt_template = None THEN DEFAULT_PROMPT ELSE prompt_template

Last(seq) == seq[Len(seq)]

\* POSTs and sleeps of n attempts that all fall through to the sleep but the
\* last: post, sleep, post, ..., post
Alternating(n) ==
    [k \in 1..(2 * n - 1) |-> IF k % 2 = 1 THEN "post" ELSE "sleep"]

\* a reply HTTP 200 whose body is {"response": X}
IsResponseReply(r) ==
    /\ IsOk(r)
    /\ r.body.json # Invalid
    /\ "response" \in DOMAIN r.body.json

\* a server that gives that reply to every request
ServesResponse(srv) == \E r \in srv : srv = {r} /\ IsResponseReply(r)

TheReply(srv) == CHOOSE r \in srv : TRUE

\* a server that answers every request with a non-200 status
AlwaysHttpError(srv) == srv # {} /\ \A r \in srv : IsHttpError(r)

\* a server that refuses every connection
AlwaysRefuses(srv) == srv = {[kind |-> "ConnectionError"]}

\* C1 (as claimed): whenever correct_text returns a result with success =
\* false, for any text (empty and whitespace-only included), any max_retries
\* and any replies, the result's corrected_text equals its original_text.
C1_FailSafeFallback ==
    (cpc = "returned" /\ ~ret.success)
        => ret.corrected_text = ret.original_text

\* C2 (as claimed): for ANY text and ANY max_retries, a call against a server
\* that replies HTTP 200 {"response": X} returns success = true with
\* corrected_text = X trimmed, after exactly one request.
C2_AnyTextAnyRetries ==
    (cpc = "returned" /\ ServesResponse(server))
        => /\ ret.success
           /\ ret.corrected_text = strip(TheReply(server).body.json.response)
           /\ posts = 1

\* C2 (amended): for non-blank text, max_retries >= 1 and a template that
\* formats, a call against a server that replies HTTP 200 {"response": X}
\* returns success = true with corrected_text = X trimmed after exactly one
\* request and no wait; and against any server, a 200 reply with a response
\* field ends the call at once with that (trimmed) text, no request or wait
\* following it.
C2_FirstOkReplyReturns ==
    /\ (/\ cpc \in {"returned", "raised"}
        /\ ServesResponse(server)
        /\ ~(text = <<>> \/ strip(text) = <<>>)
        /\ max_retries >= 1
        /\ ~FormatRaises(EffectiveTemplate))
          => /\ cpc = "returned"
             /\ ret = [original_text |-> text,
                       corrected_text |->
                           strip(TheReply(server).body.json.response),
                       success |-> TRUE,
                       model |-> OLLAMA_MODEL]
             /\ posts = 1
             /\ slept = 0
             /\ trace = <<"post">>
    /\ (last_reply # NoReply /\ IsResponseReply(last_reply))
          => /\ cpc = "returned"
             /\ ret.success
             /\ ret.corrected_text = strip(last_reply.body.json.response)
             /\ Last(trace) = "post"

\* C2 witness: an always-200 server, three retries allowed, text "a " and the
\* reply " b " trimmed to "b".
C2_Witness ==
    /\ cpc = "returned"
    /\ ServesResponse(server)
    /\ max_retries = 3
    /\ text = <<"a", " ">>
    /\ ret.success
    /\ ret.corrected_text = <<"b">>
    /\ posts = 1

\* C3: against a server that answers every request with a non-200 status, a
\* call with non-blank text and max_retries = n >= 1 that returns has made
\* exactly n POSTs with a 1-second sleep between consecutive ones (and none
\* after the last), and returns success = false, corrected_text = text and
\* the error "HTTP <status>: <body>" of the last reply.
C3_HttpErrorsExhaustRetries ==
    (/\ cpc = "returned"
     /\ AlwaysHttpError(server)
     /\ ~(text = <<>> \/ strip(text) = <<>>)
     /\ max_retries >= 1)
        => /\ posts = max_retries
           /\ slept = (max_retries - 1) * 1
           /\ trace = Alternating(max_retries)
           /\ ret = [original_text |-> text,
                     corrected_text |-> text,
                     success |-> FALSE,
                     error |-> [msg |-> "HTTP",
                                status |-> last_reply.status,
                                text |-> last_reply.body.text]]

\* C3 witness: three attempts at a server with two different non-200 replies,
\* the last of them a 503.
C3_Witness ==
    /\ cpc = "returned"
    /\ AlwaysHttpError(server)
    /\ Cardinality(server) = 2
    /\ max_retries = 3
    /\ posts = 3
    /\ slept = 2
    /\ last_reply.status = 503
    /\ ret.error.status = 503

\* C4: a refused connection ends the call on whichever attempt it occurs: the
\* call has returned success = false, corrected_text = text and the 'server
\* unreachable' error, the refused POST is the last event of the call (no
\* sleep and no request after it); against a server that always refuses, a
\* call that makes a request at all makes exactly one and never sleeps.
C4_ConnectionErrorIsFatal ==
    /\ last_reply.kind = "ConnectionError"
          => /\ cpc = "returned"
             /\ ret = [original_text |-> text,
                       corrected_text |-> text,
                       success |-> FALSE,
                       error |-> ERR_UNREACHABLE]
             /\ Last(trace) = "post"
             /\ posts = attempt + 1
             /\ slept = attempt * 1
    /\ (/\ cpc = "returned"
        /\ AlwaysRefuses(server)
        /\ ~(text = <<>> \/ strip(text) = <<>>)
        /\ max_retries >= 1)
          => /\ posts = 1
             /\ slept = 0

\* C4 witness: the connection is refused on the second of three attempts.
C4_Witness ==
    /\ cpc = "returned"
    /\ last_reply.kind = "ConnectionError"
    /\ max_retries = 3
    /\ posts = 2
    /\ ret.error = ERR_UNREACHABLE

\* C5: for empty or whitespace-only text, whatever max_retries and the prompt
\* template, a call returns (it does not raise) without any POST and without
\* any sleep, with success = false and the 'empty text' error.
C5_BlankTextNoRequest ==
    (cpc # "idle" /\ (text = <<>> \/ strip(text) = <<>>))
        => /\ cpc = "returned"
           /\ posts = 0
           /\ slept = 0
           /\ trace = <<>>
           /\ ret.success = FALSE
           /\ ret.error = ERR_EMPTY
           /\ ret.original_text = text

\* C5 witness: whitespace-only text with a template that could not be
\* formatted and three retries allowed.
C5_Witness ==
    /\ cpc = "returned"
    /\ text = <<" ", " ">>
    /\ max_retries = 3
    /\ prompt_template = [name |-> "foreign placeholder", fields |-> {"text", "lang"}]
    /\ posts = 0

\* C6: a timeout is retryable.  After a timeout on an attempt that is not the
\* last the call is at the sleep, or past it at the head of the loop with an
\* attempt still to make; it has returned only if the timeout was on attempt
\* number max_retries, and then with the 'request timeout' failure.  That
\* failure is returned only when the final attempt itself timed out.
C6_TimeoutIsRetryable ==
    /\ last_reply.kind = "Timeout"
          => \/ /\ cpc = "sleep"
                /\ attempt < max_retries - 1
                /\ ret = None
             \/ /\ cpc = "loop"
                /\ attempt < max_retries
                /\ Last(trace) = "sleep"
                /\ ret = None
             \/ /\ cpc = "returned"
                /\ attempt = max_retries - 1
                /\ ret = [original_text |-> text,
                          corrected_text |-> text,
                          success |-> FALSE,
                          error |-> ERR_TIMEOUT]
    /\ (cpc = "returned" /\ ~ret.success /\ ret.error = ERR_TIMEOUT)
          => /\ last_reply.kind = "Timeout"
             /\ posts = max_retries
             /\ attempt = max_retries - 1

\* C6 witness: two retried attempts, then the third and final attempt times
\* out.
C6_Witness ==
    /\ cpc = "returned"
    /\ ~ret.success
    /\ ret.error = ERR_TIMEOUT
    /\ max_retries = 3
    /\ posts = 3
    /\ slept = 2

(***************************************************************************)
(* Properties of the batch run, checked under SpecBatch.                   *)
(***************************************************************************)
\* what correct_text(t, template, n) can return against the server Replies,
\* from attempt a on
RECURSIVE ResultsFrom(_, _, _)
ResultsFrom(t, a, n) ==
    IF a >= n THEN {FailureResult(t, ERR_MAX_RETRIES)}
    ELSE UNION { LET out == AttemptOutcome(t, r, a, n)
                 IN IF out = Retry THEN ResultsFrom(t, a + 1, n) ELSE {out}
                 : r \in Replies }

CorrectTextResults(t, n) ==
    IF IsBlank(t) THEN {EmptyTextResult(t)} ELSE ResultsFrom(t, 0, n)

\* by file name, the records a recognized file can get in a batch in which
\* it is the only file
RecordsAlone ==
    [filename \in 1..NumFiles |->
        UNION { LET ocr == BuildOcrResult(image.results)
                IN { BuildRecord(filename, ocr, cr) :
                        cr \in CorrectTextResults(ocr.full_text,
                                                  DEFAULT_MAX_RETRIES) }
                : image \in {i \in Images : ~extract_text(i).raised} }]

\* files whose record is in all_results, by the position in the loop
Processed ==
    CASE bpc \in {"start", "returned_early"} -> 0
      [] bpc \in {"recognize", "correct"} -> idx - 1
      [] bpc = "save" -> idx
      [] bpc \in {"summary", "done"} -> Len(image_files)

\* C7: per-file failure isolation.  Whatever subset of the files fails in
\* recognition, every file gets its record (at the end there is one per
\* file, each under its own file name); the record of a file whose
\* recognition raised holds filename and error and nothing else and is made
\* exactly for those files; the record of any other file is one of the
\* records that file gets when it is processed alone, with no failed file
\* around.
C7_FailureIsolation ==
    /\ Len(all_results) = Processed
    /\ \A k \in 1..Len(all_results) :
          LET r == all_results[k]
          IN /\ r.filename = image_files[k]
             /\ IF HasError(r)
                THEN DOMAIN r = {"filename", "error"}
                ELSE r \in RecordsAlone[image_files[k]]
    /\ bpc = "save" => (HasError(all_results[idx]) <=> ocr_result = None)

\* C7 witness: a finished batch of two files, the first failed with a decode
\* error, the second recognized and corrected.
C7_Witness ==
    /\ bpc = "done"
    /\ Len(all_results) = 2
    /\ HasError(all_results[1])
    /\ all_results[1].error = "ValueError"
    /\ ~HasError(all_results[2])
    /\ all_results[2].correction.success

C8_SummaryState ==
    /\ Len(summaries) <= 1
    /\ (summaries # <<>>) <=> (bpc = "done")
    /\ Len(all_results) = Processed
    /\ summaries # <<>> =>
          /\ summaries[1] = all_results
          /\ Len(summaries[1]) = Len(image_files)
          /\ \A k \in 1..Len(image_files) :
                summaries[1][k].filename = image_files[k]

C8_SummaryStep ==
    /\ \/ all_results' = all_results
       \/ /\ Len(all_results') = Len(all_results) + 1
          /\ SubSeq(all_results', 1, Len(all_results)) = all_results
    /\ summaries' # summaries =>
          /\ bpc = "summary"
          /\ summaries = <<>>
          /\ Len(all_results) = Len(image_files)

\* C8: a batch over files always comes to write its summary; the summary is
\* written at most once and only by the step that follows the last file; a
\* finished batch has written it exactly once, and
\* it lists one record per input file (failed ones included) in the order of
\* the files; while the batch runs the result list changes only by an append
\* at its end and its length is the number of files processed so far.
C8_SummaryOnceAfterAllFiles ==
    /\ [](C8_SummaryState)
    /\ [][C8_SummaryStep]_vars
    /\ (bpc = "recognize") ~> (bpc = "done")

\* C8 witness: a finished batch of two files with its one summary, holding
\* the failed first file's record and the second file's record.
C8_Witness ==
    /\ bpc = "done"
    /\ Len(summaries) = 1
    /\ Len(summaries[1]) = 2
    /\ HasError(summaries[1][1])
    /\ ~HasError(summaries[1][2])

(***************************************************************************)
(* Properties of both front ends, checked under SpecApp.                   *)
(***************************************************************************)
Range(seq) == {seq[k] : k \in 1..Len(seq)}

\* C9: correction errors never abort image processing.  Batch: correct_text
\* never raises into process_single_image, and the record of a file whose
\* recognition succeeded has the sections filename, ocr and correction and no
\* top-level error, whatever the correction ended in.  GUI: correct_text never
\* raises into the worker, and a run whose recognition succeeded never emits
\* error and ends with finished as its last signal.
C9_CorrectionNeverAborts ==
    /\ bpc = "correct" => cpc # "raised"
    /\ (bpc = "save" /\ ocr_result # None)
          => /\ DOMAIN all_results[idx] = {"filename", "ocr", "correction"}
             /\ all_results[idx].ocr.raw_text = ocr_result.full_text
             /\ DOMAIN all_results[idx].correction =
                   {"corrected_text", "success", "model", "error"}
    /\ wpc = "correct" => cpc # "raised"
    /\ w_result # None => "error" \notin Range(emitted)
    /\ (w_result # None /\ wpc = "idle")
          => /\ Last(emitted) = "finished"
             /\ Cardinality({k \in 1..Len(emitted) : emitted[k] = "finished"}) = 1

\* C9 witness: a batch record of a recognized file whose correction ended in
\* the refused-connection failure.
C9_Witness ==
    /\ bpc = "save"
    /\ ocr_result # None
    /\ ~HasError(all_results[idx])
    /\ ~all_results[idx].correction.success
    /\ all_results[idx].correction.error = ERR_UNREACHABLE

FallbackText(record) ==
    (record.correction # None /\ ~record.correction.success)
        => record.correction.corrected_text = record.ocr.raw_text

\* C10 (as claimed): in every record of the batch path and of the GUI worker
\* whose correction.success is false, correction.corrected_text equals
\* ocr.raw_text, for every recognized text (empty and whitespace-only
\* included).
C10_FallbackTextInRecord ==
    /\ \A k \in 1..Len(all_results) :
          ~HasError(all_results[k]) => FallbackText(all_results[k])
    /\ w_result # None => FallbackText(w_result)
    /\ current_result # None => FallbackText(current_result)

(***************************************************************************)
(* Persistence of the batch run, checked under SpecBatch.                  *)
(***************************************************************************)
\* save_results has been called and has returned for file k
Saved(k) == k < idx \/ bpc \in {"summary", "done"}

\* the record carries no error field, neither at the top level nor in its
\* correction section
NoErrorField(record) ==
    /\ ~HasError(record)
    /\ record.correction.error = None

AllArtifactsWritten(filename) ==
    \A j \in 1..Len(ArtifactKinds) : <<filename, ArtifactKinds[j]>> \in artifacts

\* C11 (as claimed): no error is silently dropped in a batch run.  Every
\* failure while handling an image (recognition, correction, persisting the
\* per-image artifacts) is recorded in an error field of that image's record,
\* so a record without any error field, once save_results has returned for
\* its file, implies that all of the file's artifacts were written.
C11_NoErrorSilentlyDropped ==
    \A k \in 1..Len(all_results) :
        (Saved(k) /\ NoErrorField(all_results[k]))
            => AllArtifactsWritten(image_files[k])

(***************************************************************************)
(* Properties of OCREngine.extract_text, checked under SpecOcr.            *)
(***************************************************************************)
IsReadable(image) == image.exists /\ image.decodable /\ ~image.raises

TopLeftY(triple) == triple.bbox[2]

\* the triples at or above the threshold th (in percent), in their order
Retained(triples, th) ==
    SelectSeq(triples, LAMBDA t : t.confidence >= th)

Mean(triples) ==
    IF triples = <<>> THEN Frac(0, 1)
    ELSE Frac(Sum([k \in 1..Len(triples) |-> triples[k].confidence]),
              Len(triples))

\* C12 (as claimed): for any triples returned by the recognizer and any
\* confidence threshold, the word count of the recognition result equals the
\* number of triples whose confidence is at or above the threshold.
C12_WordCountIsRetainedCount ==
    ocr_pc = "returned"
        => ocr_ret.value.num_words =
              Len(Retained(ocr_image.results, confidence_spinbox))

\* C13 (as claimed): when the recognizer returns triples that are all below
\* the threshold, or no triples at all, recognition does not raise and
\* returns the empty result: full text "", average confidence 0.0, word
\* count 0.
C13_AllBelowThresholdIsEmpty ==
    (/\ ocr_pc \in {"returned", "raised"}
     /\ IsReadable(ocr_image)
     /\ Retained(ocr_image.results, confidence_spinbox) = <<>>)
        => /\ ocr_pc = "returned"
           /\ ocr_ret.value.full_text = <<>>
           /\ ocr_ret.value.confidence_avg = Frac(0, 1)
           /\ ocr_ret.value.num_words = 0

\* the line reconstruction the claim describes: a stable sort by the Y of the
\* top-left corner, ...
RECURSIVE InsertByY(_, _)
InsertByY(t, sorted) ==
    IF sorted = <<>> THEN <<t>>
    ELSE IF TopLeftY(t) < TopLeftY(Head(sorted)) THEN <<t>> \o sorted
    ELSE <<Head(sorted)>> \o InsertByY(t, Tail(sorted))

RECURSIVE SortByY(_)
SortByY(triples) ==
    IF triples = <<>> THEN <<>>
    ELSE InsertByY(triples[Len(triples)],
                   SortByY(SubSeq(triples, 1, Len(triples) - 1)))

Abs(n) == IF n < 0 THEN -n ELSE n

\* ... a new line when the next Y is more than 10 away from the reference Y
\* of the current line, a single space otherwise, ...
RECURSIVE WalkLines(_, _, _, _)
WalkLines(rest, done, current, reference) ==
    IF rest = <<>> THEN Append(done, current)
    ELSE LET t == Head(rest)
         IN IF Abs(TopLeftY(t) - reference) > 10
            THEN WalkLines(Tail(rest), Append(done, current), t.text,
                           TopLeftY(t))
            ELSE WalkLines(Tail(rest), done, current \o <<" ">> \o t.text,
                           reference)

\* ... and the lines joined with newline
LineText(triples) ==
    IF triples = <<>> THEN <<>>
    ELSE LET sorted == SortByY(triples)
         IN Join(<<"\n">>,
                 WalkLines(Tail(sorted), <<>>, sorted[1].text,
                           TopLeftY(sorted[1])))

\* C14 (as claimed): the full text is the line reconstruction of the retained
\* triples (sorted by top-left Y, a new line when Y is more than 10 from the
\* line's reference Y, a single space otherwise, lines joined with newline);
\* the triples (10,10) "Hello" 0.9 and (10,40) "World" 0.8 under threshold 0.5
\* give "Hello\nWorld", average confidence 0.85 and word count 2.
C14_LineReconstruction ==
    ocr_pc = "returned"
        => /\ ocr_ret.value.full_text =
                 LineText(Retained(ocr_image.results, confidence_spinbox))
           /\ (ocr_image.results = HelloWorld /\ confidence_spinbox = 50)
                 => /\ ocr_ret.value.full_text =
                          <<"H", "e", "l", "l", "o", "\n",
                            "W", "o", "r", "l", "d">>
                    /\ ocr_ret.value.confidence_avg = Frac(85, 1)
                    /\ ocr_ret.value.num_words = 2

\* C15: the error contract of extract_text.  A missing path ends the call
\* with the not-found error and an undecodable image with the decode error,
\* in both cases with no call of the recognizer; an error the recognizer
\* raises reaches the caller as it was raised; a call invokes the recognizer
\* at most once, and never before both checks have passed; a call that ends
\* in an error hands over nothing but the error, and a call returns a result
\* only for an image that exists, decodes and is recognized.
C15_RecognitionErrorContract ==
    /\ readtext_calls <= 1
    /\ ocr_pc \in {"called", "decode", "readtext"} => readtext_calls = 0
    /\ ocr_pc = "raised" =>
          /\ ocr_ret.raised
          /\ DOMAIN ocr_ret = {"raised", "exc"}
          /\ ~IsReadable(ocr_image)
          /\ ~ocr_image.exists =>
                ocr_ret.exc = "FileNotFoundError" /\ readtext_calls = 0
          /\ (ocr_image.exists /\ ~ocr_image.decodable) =>
                ocr_ret.exc = "ValueError" /\ readtext_calls = 0
          /\ (ocr_image.exists /\ ocr_image.decodable) =>
                /\ readtext_calls = 1
                /\ readtext_exc \in RecognizerErrors
                /\ ocr_ret.exc = readtext_exc
    /\ ocr_pc = "returned" =>
          /\ IsReadable(ocr_image)
          /\ ~ocr_ret.raised
          /\ readtext_calls = 1
          /\ readtext_exc = "None"

\* C15 witness: the recognizer raised MemoryError on an image that exists
\* and decodes, on its one invocation, and the call raised MemoryError.
C15_Witness ==
    /\ ocr_pc = "raised"
    /\ ocr_image.exists /\ ocr_image.decodable
    /\ readtext_calls = 1
    /\ readtext_exc = "MemoryError"
    /\ ocr_ret.exc = "MemoryError"

(***************************************************************************)
(* Properties of the GUI and its worker, checked under SpecGui.            *)
(***************************************************************************)
IsTerminal(signal) == signal.sig \in {"finished", "error"}

\* a run is in flight from start_processing until its finished or error
\* signal has been handled
InFlight ==
    \/ wpc # "idle"
    \/ \E k \in 1..Len(signals) : IsTerminal(signals[k])

C16_OneWorker ==
    /\ running <= 1
    /\ (running = 1) <=> (wpc # "idle")
    /\ InFlight => ~ui.process_button

C16_Step ==
    /\ running' > running =>
          /\ running = 0
          /\ ~InFlight
          /\ signals = <<>>
          /\ ui.process_button
          /\ ~ui'.process_button
    /\ (~ui.process_button /\ ui'.process_button) =>
          /\ signals # <<>>
          /\ IsTerminal(Head(signals))
          /\ signals' = <<>>
          /\ wpc = "idle"

\* C16: GUI single-flight.  Under every interleaving of user actions (select
\* image, press start, toggle correction) and worker signals at most one
\* OCRWorker is running; the start button is disabled while a run is in
\* flight; a worker is started only with the button enabled, no run in flight
\* and no signal pending, and starting it disables the button; the button is
\* enabled again only by the handler of the run's finished or error signal,
\* which is the run's last signal.
C16_SingleFlight == [](C16_OneWorker) /\ [][C16_Step]_vars

\* C16 witness: a second run is in flight (the first one's result is on
\* display), and the user has meanwhile selected another image and toggled
\* the correction check box; one worker runs and the button is disabled.
C16_Witness ==
    /\ current_result # None
    /\ wpc = "correct"
    /\ running = 1
    /\ ~ui.process_button
    /\ current_image_path # worker.image_path
    /\ correction_checkbox # worker.enable_correction

IsPrefix(a, b) == Len(a) <= Len(b) /\ SubSeq(b, 1, Len(a)) = a

\* the signals of a run that ends with finished, by the worker's setting
FullRun(enable_correction) ==
    IF enable_correction
    THEN <<"progress:OCR", "progress:LLM", "progress:done", "finished">>
    ELSE <<"progress:OCR", "progress:done", "finished">>

IsProgress(name) == name \in {"progress:OCR", "progress:LLM", "progress:done"}

\* milestones of the current run that on_progress has handled
HandledMilestones ==
    Cardinality({k \in 1..Len(emitted) : IsProgress(emitted[k])})
    - Cardinality({k \in 1..Len(signals) : signals[k].sig = "progress"})

C17_Milestones ==
    /\ worker # None =>
          \/ IsPrefix(emitted, FullRun(worker.enable_correction))
          \/ emitted = <<"progress:OCR", "error">>
    /\ "progress:done" \in Range(emitted) =>
          /\ "finished" \in Range(emitted)
          /\ wpc = "idle"
          /\ cpc = "idle"
          /\ w_result # None
          /\ worker.enable_correction => w_result.correction # None
    /\ ui.progress_bar <= PROGRESS_DONE
    /\ ui.status = "PROCESSING_OCR" =>
          ui.progress_bar = PROGRESS_STEP * HandledMilestones
    /\ (ui.progress_bar = PROGRESS_DONE) <=> (ui.status = "COMPLETED")

C17_BarStep ==
    ui'.progress_bar # ui.progress_bar =>
        \/ ui'.progress_bar = 0 /\ running' = running + 1
        \/ /\ ui'.progress_bar = ui.progress_bar + PROGRESS_STEP
           /\ Head(signals).sig = "progress"
        \/ /\ ui'.progress_bar = PROGRESS_DONE
           /\ Head(signals).sig = "finished"

\* C17: GUI progress milestones.  The signals of a run are a prefix of
\* recognizing, correcting (only when the worker was created with correction
\* enabled), done, finished, or recognizing followed by error, so each
\* milestone is emitted at most once and in that order; done is emitted only
\* with both stages ended and with finished right behind it; the bar is set
\* to 0 by the start of a run, each handled milestone adds 30, it never
\* exceeds 100 and it is 100 exactly from the handling of finished on.
C17_ProgressMilestones == [](C17_Milestones) /\ [][C17_BarStep]_vars

\* C17 witness: a run with correction has emitted all its signals; the three
\* milestones are handled, the bar is at 90 and finished is next.
C17_Witness ==
    /\ worker # None
    /\ emitted = FullRun(TRUE)
    /\ ui.progress_bar = 90
    /\ Len(signals) = 1
    /\ Head(signals).sig = "finished"

(***************************************************************************)
(* Order of the steps of a batch run, checked under SpecBatch.             *)
(***************************************************************************)
StepRank(step) ==
    CASE step \in {"recognize_ok", "recognize_raised"} -> 1
      [] step = "correct" -> 2
      [] step = "persist" -> 3

\* C18: batch mode is strictly sequential.  The steps taken are ordered by
\* image and, within an image, as recognition, correction, persistence, each
\* at most once; a step of image i+1 is taken only after the persistence
\* step of image i; correct_text is called for an image only right after its
\* recognition has returned, never for an image whose recognition raised,
\* and it is active only between its call and the assembly of that image's
\* record, so it has returned before the image is persisted and before the
\* next image is begun.
C18_StrictlySequential ==
    /\ \A j, k \in 1..Len(events) :
          j < k =>
             \/ events[j][1] < events[k][1]
             \/ /\ events[j][1] = events[k][1]
                /\ StepRank(events[j][2]) < StepRank(events[k][2])
    /\ \A k \in 1..Len(events) :
          /\ events[k][1] \in 1..Len(image_files)
          /\ (k > 1 /\ events[k][1] # events[k - 1][1]) =>
                /\ events[k][1] = events[k - 1][1] + 1
                /\ events[k - 1][2] = "persist"
          /\ events[k][2] = "correct" =>
                /\ k > 1
                /\ events[k - 1] = <<events[k][1], "recognize_ok">>
          /\ events[k][2] = "persist" =>
                /\ k > 1
                /\ events[k - 1][1] = events[k][1]
    /\ events # <<>> => events[1][1] = 1 /\ StepRank(events[1][2]) = 1
    /\ cpc # "idle" =>
          /\ bpc = "correct"
          /\ Last(events) = <<idx, "correct">>
    /\ bpc \in {"summary", "done"} =>
          /\ Last(events) = <<Len(image_files), "persist">>
          /\ \A i \in 1..Len(image_files) :
                \E k \in 1..Len(events) : events[k] = <<i, "persist">>

\* C18 witness: two images done; the first failed in recognition and went
\* straight to persistence, the second went through all three steps.
C18_Witness ==
    /\ bpc = "done"
    /\ events = << <<1, "recognize_raised">>, <<1, "persist">>,
                   <<2, "recognize_ok">>, <<2, "correct">>, <<2, "persist">> >>

(***************************************************************************)
(* Bounds and waits of correct_text, checked under SpecCorrectRun.         *)
(***************************************************************************)
Max0(n) == IF n > 0 THEN n ELSE 0

C19_Bounded ==
    /\ posts <= Max0(max_retries)
    /\ cpc = "sleep" => posts < Max0(max_retries)
    /\ cpc = "raised" => posts = 0
    /\ cpc = "returned" =>
          /\ {"original_text", "corrected_text", "success"} \subseteq DOMAIN ret
          /\ ret.original_text = text
          /\ ret.success \in BOOLEAN

C19_Step ==
    /\ cpc \in {"loop", "sleep"} => cpc' \in {"loop", "sleep", "returned"}
    /\ posts' > posts => posts' = posts + 1 /\ cpc = "loop"

\* C19: bounded attempts and termination of correct_text.  For every text,
\* every max_retries (0 and negative included) and every sequence of
\* per-attempt outcomes, a call makes at most max(max_retries, 0) POST
\* requests, and a call that has entered its loop always comes to return a
\* result dictionary with original_text, corrected_text and success; the
\* loop never raises.
C19_BoundedAttemptsAndTermination ==
    /\ [](C19_Bounded)
    /\ (cpc = "loop") ~> (cpc = "returned")
    /\ [][C19_Step]_vars

\* C19 witness: a call with non-blank text and max_retries = -1 has returned
\* the max-retries failure without any request.
C19_Witness ==
    /\ cpc = "returned"
    /\ max_retries = -1
    /\ text = <<"a">>
    /\ posts = 0
    /\ ret = FailureResult(text, ERR_MAX_RETRIES)

\* the outcomes after which the loop goes on: a non-200 reply, a timeout, any
\* other exception (a 200 reply whose body is not JSON raises one)
IsRetryable(r) ==
    \/ IsHttpError(r)
    \/ r.kind \in {"Timeout", "Exception"}
    \/ IsOk(r) /\ r.body.json = Invalid

Waits == Cardinality({k \in 1..Len(trace) : trace[k] = "sleep"})

C20_Waits ==
    /\ \A k \in 1..Len(trace) :
          trace[k] = IF k % 2 = 1 THEN "post" ELSE "sleep"
    /\ slept = SLEEP_SECONDS * Waits
    /\ cpc = "sleep" =>
          /\ IsRetryable(last_reply)
          /\ attempt < max_retries - 1
          /\ Waits = posts - 1
    /\ cpc = "loop" => Waits = posts
    /\ cpc = "returned" =>
          /\ Waits = IF posts = 0 THEN 0 ELSE posts - 1
          /\ posts > 0 =>
                /\ Last(trace) = "post"
                /\ IsRetryable(last_reply) => attempt = max_retries - 1

C20_Step ==
    /\ (/\ cpc = "loop"
        /\ posts' = posts + 1
        /\ IsRetryable(last_reply')
        /\ attempt < max_retries - 1) => cpc' = "sleep"
    /\ (cpc = "loop" /\ posts' = posts + 1 /\ ~IsRetryable(last_reply'))
          => cpc' = "returned"
    /\ slept' # slept =>
          \/ cpc = "sleep" /\ slept' = slept + SLEEP_SECONDS /\ cpc' = "loop"
          \/ cpc \in {"idle", "returned", "raised"} /\ slept' = 0

\* C20: retry waits occur only between attempts.  Requests and waits
\* alternate, starting with a request; after an attempt the call waits one
\* second exactly when the attempt was retryable (non-200, timeout, other
\* exception) and not the last one allowed, and it returns otherwise; so
\* there is no wait before the first request and none after the attempt on
\* which the call returns, and a returned call has waited once less than it
\* has requested (not at all when it made no request).
C20_WaitsOnlyBetweenAttempts == [](C20_Waits) /\ [][C20_Step]_vars

\* C20 witness: two retryable attempts, each followed by its wait, then a 200
\* reply on the third attempt: three requests, two waits, success.
C20_Witness ==
    /\ cpc = "returned"
    /\ ret.success
    /\ posts = 3
    /\ slept = 2 * SLEEP_SECONDS
    /\ trace = <<"post", "sleep", "post", "sleep", "post">>

(***************************************************************************)
(* The ways correct_text returns, checked under SpecCorrect.               *)
(***************************************************************************)
ErrorOf(result) == Get(result, "error", None)

\* the results returned from inside the loop
IsLoopResult(result) ==
    \/ result.success
    \/ /\ ~result.success
       /\ ErrorOf(result).msg \in
             {"HTTP", "request timeout", "server unreachable", "exception"}

C21_Returned ==
    cpc = "returned" =>
       /\ (ErrorOf(ret) = ERR_MAX_RETRIES)
             <=> (~IsBlank(text) /\ max_retries <= 0)
       /\ ErrorOf(ret) = ERR_MAX_RETRIES =>
             /\ posts = 0
             /\ trace = <<>>
             /\ ret = FailureResult(text, ERR_MAX_RETRIES)
       /\ (~IsBlank(text) /\ max_retries >= 1) =>
             /\ IsLoopResult(ret)
             /\ posts \in 1..max_retries
             /\ attempt = posts - 1

C21_Step ==
    (cpc = "loop" /\ cpc' = "returned" /\ posts' = posts) => max_retries <= 0

\* C21: the 'max retries exceeded' failure is returned exactly when text is
\* non-blank and max_retries <= 0, and then no request has been made; a call
\* with non-blank text and max_retries >= 1 returns from inside the loop, on
\* attempt number posts <= max_retries, with the success, HTTP-error,
\* timeout, unreachable or exception result; the return after the loop is
\* taken only with max_retries <= 0.
C21_MaxRetriesExceededOnlyWithoutAttempts ==
    [](C21_Returned) /\ [][C21_Step]_vars

\* C21 witness: a call with text "a" and max_retries = 0 has returned the
\* 'max retries exceeded' failure with no request made.
C21_Witness ==
    /\ cpc = "returned"
    /\ text = <<"a">>
    /\ max_retries = 0
    /\ ret.error = ERR_MAX_RETRIES
    /\ posts = 0

\* an attempt that raised something other than timeout or refused
\* connection: the request itself, or the parsing of a 200 reply
RaisedOther(r) ==
    \/ r.kind = "Exception"
    \/ IsOk(r) /\ r.body.json = Invalid

MessageOf(r) == IF r.kind = "Exception" THEN r.msg ELSE "json decode error"

C22_Step ==
    (cpc = "loop" /\ posts' = posts + 1 /\ RaisedOther(last_reply')) =>
        IF attempt < max_retries - 1
        THEN /\ cpc' = "sleep"
             /\ ret' = ret
        ELSE /\ cpc' = "returned"
             /\ ret' = [original_text |-> text, corrected_text |-> text,
                        success |-> FALSE,
                        error |-> [msg |-> "exception",
                                   str |-> MessageOf(last_reply')]]

C22_State ==
    /\ cpc = "raised" => posts = 0
    /\ (cpc = "sleep" /\ RaisedOther(last_reply)) =>
          /\ attempt < max_retries - 1
          /\ Last(trace) = "post"
    /\ (cpc = "returned" /\ posts > 0 /\ RaisedOther(last_reply)) =>
          /\ attempt = max_retries - 1
          /\ ~ret.success
          /\ ret.corrected_text = text

\* C22: an attempt that raises an error other than timeout or refused
\* connection (a 200 reply whose body does not parse included) is retryable.
\* On an attempt that is not the last the call goes to its wait, and from
\* there to the next attempt; on the last attempt it returns success = false
\* with corrected_text = text and the exception's message as error; the call
\* never raises once it has made a request.
C22_OtherExceptionsAreRetryable == [](C22_State) /\ [][C22_Step]_vars

\* C22 witness: max_retries = 2, two 200 replies whose body does not parse;
\* the second attempt returned the failure with the parse error's message.
C22_Witness ==
    /\ cpc = "returned"
    /\ max_retries = 2
    /\ posts = 2
    /\ slept = SLEEP_SECONDS
    /\ IsOk(last_reply)
    /\ ~ret.success
    /\ ret.error = ExcError("json decode error")
    /\ ret.corrected_text = text

(***************************************************************************)
(* The end of a worker run, checked under SpecGuiRun.                      *)
(***************************************************************************)
TerminalsEmitted ==
    Cardinality({k \in 1..Len(emitted) : emitted[k] \in {"finished", "error"}})

C23_State ==
    /\ TerminalsEmitted <= 1
    /\ wpc # "idle" => TerminalsEmitted = 0
    /\ (worker # None /\ wpc = "idle") =>
          /\ TerminalsEmitted = 1
          /\ Last(emitted) \in {"finished", "error"}
          /\ (Last(emitted) = "error") <=> (w_result = None)
    /\ "error" \in Range(emitted) => emitted = <<"progress:OCR", "error">>

C23_Step ==
    /\ (wpc = "ocr" /\ wpc' = "idle") =>
          /\ emitted' = Append(emitted, "error")
          /\ signals' = Append(signals, Emit("error", Last(signals').arg))
    /\ (wpc = "ocr" /\ wpc' = "recognized") =>
          /\ emitted' = emitted
          /\ w_result' # None
    /\ (wpc # "idle" /\ wpc' = "idle") =>
          Last(signals').sig \in {"finished", "error"}

\* C23: every worker run ends with exactly one of finished and error.  No
\* run emits both, a run that has ended has emitted one of them as its last
\* signal, and error is emitted exactly when the recognition stage raised
\* (also when there is no engine to call); a run that was started ends, and
\* the start button it disabled is enabled again, whatever init_engines left
\* behind.
C23_RunEndsWithOneSignal ==
    /\ [](C23_State)
    /\ [][C23_Step]_vars
    /\ (wpc = "run") ~> (wpc = "idle")
    /\ (~ui.process_button) ~> ui.process_button

\* C23 witness: init_engines had failed to create the engines; a run ended
\* with error as its only terminal signal, the signal has been handled and
\* the start button is enabled again.
C23_Witness ==
    /\ ocr_engine = "None"
    /\ emitted = <<"progress:OCR", "error">>
    /\ signals = <<>>
    /\ wpc = "idle"
    /\ ui.status = "ERROR"
    /\ ui.process_button

(***************************************************************************)
(* The result on display, checked under SpecGui.                           *)
(***************************************************************************)
\* C24 (as claimed): under every interleaving of image selection with a run
\* in flight, whenever the save or the export button is enabled the stored
\* current_result is the result of a run on the image that is selected now.
C24_ResultBelongsToSelectedImage ==
    (ui.save_button \/ ui.export_button) =>
        /\ current_result # None
        /\ current_result.filename = current_image_path

(***************************************************************************)
(* Artifacts and statistics of the batch run, checked under SpecBatch.     *)
(***************************************************************************)
Failed(record) == "error" \in DOMAIN record

ArtifactsOf(filename) == {a \in artifacts : a[1] = filename}

\* the files save_results has written when its first w writes succeeded
Written(filename, w) == {<<filename, ArtifactKinds[j]>> : j \in 1..w}

C25_State ==
    /\ \A a \in artifacts :
          \E k \in 1..Len(all_results) :
             /\ image_files[k] = a[1]
             /\ ~Failed(all_results[k])
             /\ k <= idx
             /\ a[2] \in {"json", "raw", "corrected"}
    /\ \A k \in 1..Len(all_results) :
          Failed(all_results[k]) => ArtifactsOf(image_files[k]) = {}
    /\ bpc = "done" =>
          /\ Len(summaries[1]) = Len(image_files)
          /\ \A k \in 1..Len(all_results) : summaries[1][k] = all_results[k]

C25_Step ==
    /\ Len(all_results') >= Len(all_results)
    /\ \A k \in 1..Len(all_results) : all_results'[k] = all_results[k]
    /\ artifacts' # artifacts =>
          /\ bpc = "save"
          /\ ~Failed(all_results[idx])
          /\ \E w \in 1..3 :
                artifacts' = artifacts \cup Written(image_files[idx], w)
    /\ (bpc = "save" /\ bpc' # "save" /\ Failed(all_results[idx])) =>
          artifacts' = artifacts

RecognizedCount ==
    Cardinality({k \in 1..Len(events) : events[k][2] = "recognize_ok"})

RaisedCount ==
    Cardinality({k \in 1..Len(events) : events[k][2] = "recognize_raised"})

\* C26: batch statistics.  At the end of process_directory the logged success
\* count is the number of records without a top-level error and the logged
\* failure count the number of records with one; they sum to the number of
\* image files; an image counts as a success as soon as its recognition
\* returned, whatever its correction ended in.
C26_BatchStatistics ==
    bpc = "done" =>
       /\ stats.successful =
             Cardinality({k \in 1..Len(all_results) : ~Failed(all_results[k])})
       /\ stats.failed =
             Cardinality({k \in 1..Len(all_results) : Failed(all_results[k])})
       /\ stats.successful + stats.failed = Len(image_files)
       /\ stats.total = Len(image_files)
       /\ stats.successful = RecognizedCount
       /\ stats.failed = RaisedCount

\* C26 witness: two images done; the first was recognized but its correction
\* failed, the second failed in recognition: one success, one failure.
C26_Witness ==
    /\ bpc = "done"
    /\ Len(all_results) = 2
    /\ ~Failed(all_results[1])
    /\ ~all_results[1].correction.success
    /\ Failed(all_results[2])
    /\ stats = [total |-> 2, successful |-> 1, failed |-> 1]

=============================================================================
